---- MODULE Spec2Model ----
(***************************************************************************)
(* Model of examples/algotrade_sentiment:                                  *)
(*   01_fetch_data.py            rate-limited concurrent fetch, news       *)
(*                               aggregation, market table, left merge     *)
(*   02_metrics_and_charting.py  rolling metrics and the cleaning filter   *)
(*                                                                         *)
(* Four specifications share the module:                                   *)
(*   Spec         one fetch batch (fetch_all_news_pages or                 *)
(*                fetch_all_market_data) as asyncio tasks over a semaphore *)
(*   PipeSpec     main() of 01_fetch_data.py from the fetched news frame   *)
(*                on: process_news_data, the market table, pd.merge        *)
(*   MetricsSpec  calculate_metrics followed by clean_data, one asset       *)
(*   TwoAssetSpec the same on a table of two assets, one with little       *)
(*                history                                                  *)
(***************************************************************************)
EXTENDS Integers, Sequences, FiniteSets, TLC

\* ---------------------------------------------------------------- bounds
MaxDesc == 3          \* descriptors (pages or asset ids) in one batch
MaxSem == 2           \* sem_value ranges over 1..MaxSem
MaxRecs == 1          \* records in one response body
MaxItems == 2         \* news items handed to process_news_data
MaxPts == 2           \* points in one asset's price series
MaxRows == 9          \* rows of the asset whose metrics are looked at
MaxCount == 2         \* a day's news count is 1 or MaxCount
MaxClose == 1         \* closes range over 0..MaxClose and NaN
TicksPerUnit == 2     \* clock ticks per time unit (second)

\* ------------------------------------------------------ program constants
SLEEP_S == 1
ROLLING_WINDOW == 7
MIN_PERIODS == 1
SECONDS_IN_A_DAY == 86400
MS_IN_A_DAY == 86400000

\* ------------------------------------------------------------ cell values
\* A float cell: a rational n/d (d > 0, lowest terms), +inf, -inf or NaN.
Fin(n, d) == [k |-> "fin", n |-> n, d |-> d]
NaN == [k |-> "nan", n |-> 0, d |-> 1]
PInf == [k |-> "inf", n |-> 1, d |-> 1]
NInf == [k |-> "inf", n |-> -1, d |-> 1]
Num(i) == Fin(i, 1)

\* a missing (None) text or list cell
None == "<null>"

\* a response body: a falsy JSON value, or an envelope whose "data" is a list
FalsyBody == [falsy |-> TRUE, data |-> <<>>]
Envelope(data) == [falsy |-> FALSE, data |-> data]

VARIABLES
  \* --- one fetch batch
  kind,        \* "news" | "market": which fetch_all_* runs
  sem_value,   \* the sem_value argument
  total,       \* total_pages (news) or the number of unique asset ids (market)
  descs,       \* pages / asset_ids, in task order
  sem,         \* asyncio.Semaphore._value
  pc,          \* per task: "start" | "sleep" | "get" | "done" | "failed" | "cancelled"
  result,      \* per task: the DataFrame it returned (meaningful once pc is "done")
  held,        \* per task: ticks since it entered `async with sem`, up to ClockCap
               \* (-1 before it has)
  gap,         \* per task: when it acquired, the least held among the tasks that had
               \* already released (ClockCap if none had)
  waited,      \* per task: the value of held when it issued its request
  sent,        \* per task: the number of HTTP requests it has issued
  age,         \* per task: ticks since it issued its request, up to ClockCap
  batch,       \* "gather" | "returned" | "raised"
  error,       \* the exception a raised batch ended with
  output       \* the frame fetch_all_* returned (meaningful once batch is "returned")

fetchVars == <<kind, sem_value, total, descs, sem, pc, result, held, gap, waited, sent,
               age, batch, error, output>>

VARIABLES
  \* --- main() of 01_fetch_data.py after the news batch returned
  ppc,               \* "fetched" | "processed" | "market" | "exported" | "failed"
  news_df,           \* what fetch_all_news_pages returned
  processed_news_df, \* rows of the aggregated table
  unique_asset_ids,  \* news_df["asset_id"].unique()
  market_df,         \* rows of what fetch_all_market_data returned
  final_df,          \* rows of the merged table
  perr               \* the exception main() ended with

pipeVars == <<ppc, news_df, processed_news_df, unique_asset_ids, market_df, final_df, perr>>

VARIABLES
  \* --- main() of 02_metrics_and_charting.py
  mpc,       \* "loaded" | "metrics" | "cleaned"
  fill_pad,  \* whether the installed pandas pads NaN in pct_change (fill_method="pad",
             \* its default up to 2.x) or leaves them (3.x)
  df,        \* the table: loaded, then with the metric columns
  out        \* what clean_data returned

metricVars == <<mpc, fill_pad, df, out>>

vars == <<fetchVars, pipeVars, metricVars>>

\* ------------------------------------------------------------ DataFrames
\* A DataFrame is its set of columns and its rows in order.
EmptyFrame == [cols |-> {}, rows |-> <<>>]

RECURSIVE ConcatRows(_)
ConcatRows(frames) ==
  IF frames = <<>> THEN <<>> ELSE Head(frames).rows \o ConcatRows(Tail(frames))

\* pd.concat(results): ValueError on an empty list, otherwise the union of the
\* columns and the rows of the frames one after the other.
Concat(frames) ==
  IF frames = <<>>
  THEN [ok |-> FALSE, err |-> "ValueError", frame |-> EmptyFrame]
  ELSE [ok |-> TRUE, err |-> "",
        frame |-> [cols |-> UNION {frames[i].cols : i \in 1..Len(frames)},
                   rows |-> ConcatRows(frames)]]

\* pd.to_datetime(x, unit=...).dt.date: the UTC day of an epoch instant.
DateOf(t, unitsPerDay) == t \div unitsPerDay

NewsCols == {"id", "publishTimeMillis", "title", "description", "url", "assets"}

\* pd.DataFrame(json["data"]) of a news page
NewsParse(body) ==
  [cols |-> IF body.data = <<>> THEN {} ELSE NewsCols, rows |-> body.data]

\* the body of fetch_single_asset_market_data after the response arrived
MarketParse(asset_id, body) ==
  IF body.falsy
  THEN EmptyFrame
  ELSE [cols |-> (IF body.data = <<>> THEN {} ELSE {"timestamp", "close"})
                   \cup {"asset_id"},
        rows |-> [i \in 1..Len(body.data) |->
                    [timestamp |-> body.data[i].timestamp, close |-> body.data[i].close,
                     asset_id |-> asset_id]]]

\* fetch_all_market_data after gather: concat, the date column, the projection
MarketPost(results) ==
  LET c == Concat(results) IN
  IF ~c.ok THEN c
  ELSE IF "timestamp" \notin c.frame.cols
  THEN [ok |-> FALSE, err |-> "KeyError", frame |-> EmptyFrame]
  ELSE [ok |-> TRUE, err |-> "",
        frame |-> [cols |-> {"date", "asset_id", "close"},
                   rows |-> [i \in 1..Len(c.frame.rows) |->
                               [date |-> DateOf(c.frame.rows[i].timestamp, SECONDS_IN_A_DAY),
                                asset_id |-> c.frame.rows[i].asset_id,
                                close |-> c.frame.rows[i].close]]]]

\* fetch_all_news_pages after gather
NewsPost(results) == Concat(results)

\* ------------------------------------------------ what the API may answer
AssetIds == {"a1", "a2", "a3", "a4"}
AssetIdSeq == <<"a1", "a2", "a3", "a4">>

\* a news page for descriptor `page` holding n items, told apart by their id
NewsBody(page, n) ==
  Envelope([i \in 1..n |-> [id |-> <<page, i>>, publishTimeMillis |-> 0, title |-> "t",
                            description |-> None, url |-> None, assets |-> <<>>,
                            has_assets |-> FALSE]])

\* a price series of n daily points
MarketBody(n) ==
  Envelope([i \in 1..n |-> [timestamp |-> (i - 1) * SECONDS_IN_A_DAY, close |-> Num(i)]])

Bodies(k, desc) ==
  IF k = "news"
  THEN {NewsBody(desc, n) : n \in 0..MaxRecs}
  ELSE {FalsyBody} \cup {MarketBody(n) : n \in 0..MaxRecs}

Parse(k, desc, body) ==
  IF k = "news" THEN NewsParse(body) ELSE MarketParse(desc, body)

\* ------------------------------------------------------- one fetch batch
Tasks == 1..Len(descs)
Holding(t) == pc[t] \in {"sleep", "get"}
Finished(t) == pc[t] \in {"done", "failed", "cancelled"}

\* Clocks count ticks up to one time unit and stay there.
ClockCap == TicksPerUnit
Bump(c) == IF c < ClockCap THEN c + 1 ELSE c

\* await asyncio.sleep(1): the task resumes no earlier than one unit later
\* (mutant: asyncio.sleep(0))
SleepTicks_NoDelay == 0 * TicksPerUnit
SleepTicks == SLEEP_S * TicksPerUnit

\* (mutant: the sleep is not awaited)
SleptEnough_NotAwaited(t) == TRUE
SleptEnough(t) == held[t] >= SleepTicks

\* asyncio.Semaphore.acquire: passes while _value > 0
\* (mutant: the tasks do not go through the semaphore)
CanAcquire_NoGate == TRUE
CanAcquire == sem > 0

\* pages=range(1, total_pages + 1)
\* (mutant: range(1, total_pages))
Pages_DropLast(total_pages) == [i \in 1..(total_pages - 1) |-> i]
Pages(total_pages) == [i \in 1..total_pages |-> i]

\* asset_ids=unique_asset_ids: n distinct ids
Assets(n) == [i \in 1..n |-> AssetIdSeq[i]]

\* the variables of 02_metrics_and_charting.py while 01_fetch_data.py is looked at
MetricsIdle ==
  /\ mpc = "idle"
  /\ fill_pad = FALSE
  /\ df = <<>>
  /\ out = <<>>

\* the variables of main() while a fetch batch is looked at on its own
PipeIdle ==
  /\ ppc = "idle"
  /\ news_df = EmptyFrame
  /\ processed_news_df = <<>>
  /\ unique_asset_ids = <<>>
  /\ market_df = <<>>
  /\ final_df = <<>>
  /\ perr = ""

Init ==
  /\ kind \in {"news", "market"}
  /\ sem_value \in 1..MaxSem
  /\ total \in 0..MaxDesc
  /\ descs = IF kind = "news" THEN Pages(total) ELSE Assets(total)
  /\ sem = sem_value
  /\ pc = [t \in 1..Len(descs) |-> "start"]
  /\ result = [t \in 1..Len(descs) |-> EmptyFrame]
  /\ held = [t \in 1..Len(descs) |-> -1]
  /\ gap = [t \in 1..Len(descs) |-> ClockCap]
  /\ waited = [t \in 1..Len(descs) |-> ClockCap]
  /\ sent = [t \in 1..Len(descs) |-> 0]
  /\ age = [t \in 1..Len(descs) |-> ClockCap]
  /\ batch = "gather"
  /\ error = ""
  /\ output = EmptyFrame
  /\ PipeIdle
  /\ MetricsIdle

\* the tasks that have held a permit and given it back
Released == {t \in Tasks : held[t] >= 0 /\ Finished(t)}

Min(S) == CHOOSE x \in S : \A y \in S : x <= y

\* sem.release() in __aexit__
Release(t) == sem' = sem + 1

\* `async with sem`: acquire() returns once _value > 0
Acquire(t) ==
  /\ pc[t] = "start"
  /\ CanAcquire
  /\ sem' = sem - 1
  /\ pc' = [pc EXCEPT ![t] = "sleep"]
  /\ held' = [held EXCEPT ![t] = 0]
  /\ gap' = [gap EXCEPT ![t] = Min({ClockCap} \cup {held[u] : u \in Released})]
  /\ UNCHANGED <<kind, sem_value, total, descs, result, waited, sent, age, batch, error,
                 output>>
  /\ UNCHANGED <<pipeVars, metricVars>>

\* asyncio.sleep(1) has returned; session.get(...) issues the request
Get(t) ==
  /\ pc[t] = "sleep"
  /\ SleptEnough(t)
  /\ pc' = [pc EXCEPT ![t] = "get"]
  /\ waited' = [waited EXCEPT ![t] = held[t]]
  /\ sent' = [sent EXCEPT ![t] = sent[t] + 1]
  /\ age' = [age EXCEPT ![t] = 0]
  /\ UNCHANGED <<kind, sem_value, total, descs, sem, result, held, gap, batch, error,
                 output>>
  /\ UNCHANGED <<pipeVars, metricVars>>

\* the response arrived and was parsed; both `async with` blocks are left
Respond(t) ==
  /\ pc[t] = "get"
  /\ \E body \in Bodies(kind, descs[t]) :
       result' = [result EXCEPT ![t] = Parse(kind, descs[t], body)]
  /\ pc' = [pc EXCEPT ![t] = "done"]
  /\ Release(t)
  /\ UNCHANGED <<kind, sem_value, total, descs, held, gap, waited, sent, age, batch,
                 error, output>>
  /\ UNCHANGED <<pipeVars, metricVars>>

\* the HTTP call or response.json()[...] raised; the exception leaves `async with sem`
Fail(t) ==
  /\ pc[t] = "get"
  /\ pc' = [pc EXCEPT ![t] = "failed"]
  /\ Release(t)
  /\ UNCHANGED <<kind, sem_value, total, descs, result, held, gap, waited, sent, age,
                 batch, error, output>>
  /\ UNCHANGED <<pipeVars, metricVars>>

\* one tick of time passes
Tick ==
  /\ held' = [t \in Tasks |-> IF held[t] >= 0 THEN Bump(held[t]) ELSE held[t]]
  /\ age' = [t \in Tasks |-> IF sent[t] > 0 THEN Bump(age[t]) ELSE age[t]]
  /\ <<held', age'>> # <<held, age>>
  /\ UNCHANGED <<kind, sem_value, total, descs, sem, pc, result, gap, waited, sent, batch,
                 error, output>>
  /\ UNCHANGED <<pipeVars, metricVars>>

Post(k, results) == IF k = "news" THEN NewsPost(results) ELSE MarketPost(results)

\* tqdm.gather hands back the results once no task is pending and none raised
\* (mutant: exceptions are collected instead of raised, and their tasks skipped)
Gathered_Lenient == \A t \in Tasks : pc[t] \in {"done", "failed"}
Gathered == \A t \in Tasks : pc[t] = "done"

\* tqdm.gather returned every task's result, in task order; the rest of fetch_all_*
GatherReturn ==
  /\ batch = "gather"
  /\ Gathered
  /\ LET r == Post(kind, result) IN
       /\ batch' = IF r.ok THEN "returned" ELSE "raised"
       /\ error' = r.err
       /\ output' = r.frame
  /\ UNCHANGED <<kind, sem_value, total, descs, sem, pc, result, held, gap, waited, sent,
                 age>>
  /\ UNCHANGED <<pipeVars, metricVars>>

\* tqdm.gather re-raises the exception of a failed task
GatherRaise ==
  /\ batch = "gather"
  /\ \E t \in Tasks : pc[t] = "failed"
  /\ batch' = "raised"
  /\ error' = "FetchError"
  /\ UNCHANGED <<kind, sem_value, total, descs, sem, pc, result, held, gap, waited, sent,
                 age, output>>
  /\ UNCHANGED <<pipeVars, metricVars>>

\* asyncio.run cancels every task still pending, all in one step, once the
\* batch has raised; a cancelled task inside `async with sem` releases on its way out
CancelAll ==
  /\ batch = "raised"
  /\ \E t \in Tasks : ~Finished(t)
  /\ pc' = [t \in Tasks |-> IF Finished(t) THEN pc[t] ELSE "cancelled"]
  /\ sem' = sem + Cardinality({t \in Tasks : Holding(t)})
  /\ UNCHANGED <<kind, sem_value, total, descs, result, held, gap, waited, sent, age,
                 batch, error, output>>
  /\ UNCHANGED <<pipeVars, metricVars>>

Next ==
  \/ \E t \in Tasks : Acquire(t)
  \/ \E t \in Tasks : Get(t)
  \/ \E t \in Tasks : Respond(t)
  \/ \E t \in Tasks : Fail(t)
  \/ CancelAll
  \/ Tick
  \/ GatherReturn
  \/ GatherRaise

Spec == Init /\ [][Next]_vars

\* ------------------------------------------------ claims on a fetch batch
HoldingTasks == {t \in Tasks : Holding(t)}

\* C1: at most sem_value tasks are between acquiring and releasing the
\* semaphore (sleeping or with their request outstanding), in every state.
C1_AtMostNHoldTheGate == Cardinality(HoldingTasks) <= sem_value

\* the gate is full with two holders while a third task waits for it
C1_Witness ==
  /\ sem_value = 2
  /\ Cardinality(HoldingTasks) = 2
  /\ \E t \in Tasks : pc[t] = "start"

\* C2: a task issues its request only while it holds a permit it acquired at
\* least one time unit before, never before or without the delay, and answers
\* come only to issued requests; a permit taken after another task gave its
\* permit back is taken at least one unit after that task took its own.
C2_AcquireDelayRequestRelease ==
  \A t \in Tasks :
    /\ pc[t] \in {"start", "sleep"} => sent[t] = 0
    /\ pc[t] \in {"get", "done", "failed"} => sent[t] = 1
    /\ sent[t] > 0 => waited[t] >= TicksPerUnit
    /\ pc[t] = "get" => held[t] >= TicksPerUnit
    /\ gap[t] >= TicksPerUnit

\* with one permit, a second task has issued its request after the first one's
C2_Witness ==
  /\ sem_value = 1
  /\ \E t, u \in Tasks : t # u /\ pc[u] = "done" /\ pc[t] = "get" /\ held[u] >= 0

\* C3: once a descriptor's call or parse has failed the batch never returns:
\* it holds no records, the error is raised or about to be, and no descriptor
\* is requested a second time.
C3_FailFast ==
  (\E t \in Tasks : pc[t] = "failed") =>
    /\ batch # "returned"
    /\ output = EmptyFrame
    /\ batch = "gather" => ENABLED GatherRaise
    /\ \A t \in Tasks : sent[t] <= 1

\* one descriptor failed, another delivered records, and the batch has raised
C3_Witness ==
  /\ batch = "raised"
  /\ \E t, u \in Tasks :
       pc[t] = "failed" /\ pc[u] = "done" /\ result[u].rows # <<>>

TaskOf(p) == CHOOSE t \in Tasks : descs[t] = p

C5_ZeroRecordsIsNoError ==
  (batch # "gather" /\ \A t \in Tasks : pc[t] = "done") =>
    /\ batch = "returned"
    /\ Len(output.rows) = Len(ConcatRows(result))

\* C10: fewer than one time unit ago, at most sem_value requests were issued.
RecentRequests == {t \in Tasks : sent[t] > 0 /\ age[t] < TicksPerUnit}

C10_AtMostNRequestsPerUnit == Cardinality(RecentRequests) <= sem_value

\* two requests within the last unit with two permits, a third one before them
C10_Witness ==
  /\ sem_value = 2
  /\ Cardinality(RecentRequests) = 2
  /\ \E t \in Tasks : sent[t] > 0 /\ age[t] >= TicksPerUnit

\* ======================================================================
\* main() of 01_fetch_data.py: aggregate the news, fetch the prices, merge
\* ======================================================================

\* the order pandas sorts asset ids and asset names in
Alphabet == <<"a1", "a2", "a3", "a4", "n1", "n2">>
Rank(x) == CHOOSE i \in 1..Len(Alphabet) : Alphabet[i] = x

RECURSIVE Flatten(_)
Flatten(ss) == IF ss = <<>> THEN <<>> ELSE Head(ss) \o Flatten(Tail(ss))

\* fillna("None")
FillNone(x) == IF x = None THEN "None" ELSE x

\* .explode("assets") of one row: one row per asset, a row with a NaN asset
\* for an empty list
ExplodeRow(r) ==
  IF r.assets = <<>>
  THEN << [date |-> r.date, title |-> r.title, description |-> r.description,
           url |-> r.url, is_asset |-> FALSE, asset_id |-> None, asset_name |-> None] >>
  ELSE [i \in 1..Len(r.assets) |->
          [date |-> r.date, title |-> r.title, description |-> r.description,
           url |-> r.url, is_asset |-> TRUE,
           asset_id |-> r.assets[i].id, asset_name |-> r.assets[i].name]]

\* the key of groupby(["asset_id", "asset_name", "date"])
GroupKey(r) == <<r.asset_id, r.asset_name, r.date>>

KeyLess(a, b) ==
  \/ Rank(a[1]) < Rank(b[1])
  \/ a[1] = b[1] /\ Rank(a[2]) < Rank(b[2])
  \/ a[1] = b[1] /\ a[2] = b[2] /\ a[3] < b[3]

RECURSIVE SortKeys(_)
SortKeys(S) ==
  IF S = {} THEN <<>>
  ELSE LET m == CHOOSE x \in S : \A y \in S \ {x} : KeyLess(x, y)
       IN <<m>> \o SortKeys(S \ {m})

\* (mutant: no grouping, one output row per exploded row)
GroupKeys_PerRow(rows) == [i \in 1..Len(rows) |-> GroupKey(rows[i])]
\* the groups of groupby(...), in sorted key order
GroupKeys(rows) == SortKeys({GroupKey(rows[i]) : i \in 1..Len(rows)})

Column(rows, c) == [i \in 1..Len(rows) |-> rows[i][c]]

\* .agg({"title": list, "description": list, "url": list}), count, reset_index()
Aggregate(rows) ==
  LET keys == GroupKeys(rows)
      Members(k) == SelectSeq(rows, LAMBDA r : GroupKey(r) = k)
  IN [g \in 1..Len(keys) |->
        [asset_id |-> keys[g][1], asset_name |-> keys[g][2], date |-> keys[g][3],
         title |-> Column(Members(keys[g]), "title"),
         description |-> Column(Members(keys[g]), "description"),
         url |-> Column(Members(keys[g]), "url"),
         count |-> Len(Column(Members(keys[g]), "title"))]]

\* Series.unique(): the values in order of first appearance
Unique(xs) ==
  LET first == SelectSeq([i \in 1..Len(xs) |-> i],
                         LAMBDA i : \A j \in 1..(i - 1) : xs[j] # xs[i])
  IN [n \in 1..Len(first) |-> xs[first[n]]]

\* process_news_data
ProcessNews(raw) ==
  IF "publishTimeMillis" \notin raw.cols
  THEN [ok |-> FALSE, err |-> "KeyError", grouped |-> <<>>, ids |-> <<>>, dates |-> <<>>]
  ELSE
    LET dated == [i \in 1..Len(raw.rows) |->
                    [date |-> DateOf(raw.rows[i].publishTimeMillis, MS_IN_A_DAY),
                     title |-> raw.rows[i].title, description |-> raw.rows[i].description,
                     url |-> raw.rows[i].url, assets |-> raw.rows[i].assets,
                     has_assets |-> raw.rows[i].has_assets]]
        kept == SelectSeq(dated, LAMBDA r : r.has_assets)
        exploded == Flatten([i \in 1..Len(kept) |-> ExplodeRow(kept[i])])
    IN IF \E i \in 1..Len(exploded) : ~exploded[i].is_asset
       THEN [ok |-> FALSE, err |-> "TypeError", grouped |-> <<>>, ids |-> <<>>,
             dates |-> <<>>]
       ELSE
         LET filled == [i \in 1..Len(exploded) |->
                          [exploded[i] EXCEPT !.title = FillNone(@),
                                              !.description = FillNone(@),
                                              !.url = FillNone(@)]]
         IN [ok |-> TRUE, err |-> "",
             grouped |-> Aggregate(filled),
             ids |-> Unique(Column(filled, "asset_id")),
             dates |-> Unique(Column(filled, "date"))]

\* the price rows with the key of news row r, in their order
Matches(r, prices) ==
  SelectSeq(prices, LAMBDA q : q.asset_id = r.asset_id /\ q.date = r.date)

WithClose(r, c) ==
  [asset_id |-> r.asset_id, asset_name |-> r.asset_name, date |-> r.date,
   title |-> r.title, description |-> r.description, url |-> r.url,
   count |-> r.count, close |-> c]

\* (mutant: how="inner")
MergeRow_Inner(r, prices) ==
  LET m == Matches(r, prices) IN [j \in 1..Len(m) |-> WithClose(r, m[j].close)]
\* the rows pd.merge(..., how="left") makes of one left row
MergeRow(r, prices) ==
  LET m == Matches(r, prices)
  IN IF m = <<>> THEN << WithClose(r, NaN) >>
     ELSE [j \in 1..Len(m) |-> WithClose(r, m[j].close)]

\* pd.merge(processed_news_df, market_df, on=["asset_id", "date"], how="left")
Merge(news, prices) == Flatten([i \in 1..Len(news) |-> MergeRow(news[i], prices)])

\* ------------------------------------------------------------- the inputs
NewsTimes == {0, MS_IN_A_DAY + 1}
Ref(i, n) == [id |-> i, name |-> n]
AssetLists ==
  { <<>>, <<Ref("a1", "n1")>>, <<Ref("a1", "n2")>>, <<Ref("a2", "n1")>>,
    <<Ref("a1", "n1"), Ref("a2", "n1")>> }
Texts ==
  { [title |-> "t", description |-> "d", url |-> "u"],
    [title |-> None, description |-> None, url |-> "u"] }

\* a news item as the feed delivers it; has_assets = FALSE is a null "assets"
Item(ts, x, a, h) ==
  [id |-> <<1, 1>>, publishTimeMillis |-> ts, title |-> x.title,
   description |-> x.description, url |-> x.url, assets |-> a, has_assets |-> h]

NewsItems ==
  {Item(ts, x, a, TRUE) : ts \in NewsTimes, x \in Texts, a \in AssetLists}
    \cup {Item(ts, x, <<>>, FALSE) : ts \in NewsTimes, x \in Texts}

\* what fetch_all_news_pages returns: no column at all when every page is empty
NewsFrames ==
  {EmptyFrame} \cup
  { [cols |-> NewsCols, rows |-> [i \in 1..Len(f) |-> [f[i] EXCEPT !.id = <<1, i>>]]] :
      f \in UNION {[1..n -> NewsItems] : n \in 1..MaxItems} }

MarketTimes == {0, 43200, 86400}

RECURSIVE Ascending(_)
Ascending(S) ==
  IF S = {} THEN <<>>
  ELSE LET m == CHOOSE x \in S : \A y \in S : x <= y IN <<m>> \o Ascending(S \ {m})

\* a daily series: ascending instants, the close told apart by the instant
Series(S) ==
  LET ts == Ascending(S)
  IN [i \in 1..Len(ts) |-> [timestamp |-> ts[i], close |-> Num(1 + ts[i] \div 43200)]]

PriceBodies ==
  {FalsyBody} \cup
  {Envelope(Series(S)) : S \in {T \in SUBSET MarketTimes : Cardinality(T) <= MaxPts}}

\* ------------------------------------------------------------ the actions
FetchIdle ==
  /\ kind = "news"
  /\ sem_value = 1
  /\ total = 0
  /\ descs = <<>>
  /\ sem = 1
  /\ pc = <<>>
  /\ result = <<>>
  /\ held = <<>>
  /\ gap = <<>>
  /\ waited = <<>>
  /\ sent = <<>>
  /\ age = <<>>
  /\ batch = "idle"
  /\ error = ""
  /\ output = EmptyFrame

PipeInit ==
  /\ FetchIdle
  /\ MetricsIdle
  /\ ppc = "fetched"
  /\ news_df \in NewsFrames
  /\ processed_news_df = <<>>
  /\ unique_asset_ids = <<>>
  /\ market_df = <<>>
  /\ final_df = <<>>
  /\ perr = ""

\* processed_news_df, unique_asset_ids, unique_dates = process_news_data(news_df)
Process ==
  /\ ppc = "fetched"
  /\ LET r == ProcessNews(news_df) IN
       /\ ppc' = IF r.ok THEN "processed" ELSE "failed"
       /\ perr' = r.err
       /\ processed_news_df' = r.grouped
       /\ unique_asset_ids' = r.ids
  /\ UNCHANGED <<news_df, market_df, final_df, fetchVars, metricVars>>

\* market_df = asyncio.run(fetch_all_market_data(unique_asset_ids, ...)),
\* every asset's call answered
FetchMarket ==
  /\ ppc = "processed"
  /\ \E bodies \in [1..Len(unique_asset_ids) -> PriceBodies] :
       LET r == MarketPost([i \in 1..Len(unique_asset_ids) |->
                              MarketParse(unique_asset_ids[i], bodies[i])])
       IN /\ ppc' = IF r.ok THEN "market" ELSE "failed"
          /\ perr' = r.err
          /\ market_df' = r.frame.rows
  /\ UNCHANGED <<news_df, processed_news_df, unique_asset_ids, final_df, fetchVars, metricVars>>

\* the same, an asset's call or parse having failed
FetchMarketFails ==
  /\ ppc = "processed"
  /\ unique_asset_ids # <<>>
  /\ ppc' = "failed"
  /\ perr' = "FetchError"
  /\ UNCHANGED <<news_df, processed_news_df, unique_asset_ids, market_df, final_df,
                 fetchVars, metricVars>>

\* final_df = pd.merge(...); final_df.to_csv(...)
MergeExport ==
  /\ ppc = "market"
  /\ final_df' = Merge(processed_news_df, market_df)
  /\ ppc' = "exported"
  /\ UNCHANGED <<news_df, processed_news_df, unique_asset_ids, market_df, perr,
                 fetchVars, metricVars>>

PipeNext ==
  \/ Process
  \/ FetchMarket
  \/ FetchMarketFails
  \/ MergeExport

PipeSpec == PipeInit /\ [][PipeNext]_vars

\* ------------------------------------------------- claims on the pipeline
SameKey(a, b) == a.asset_id = b.asset_id /\ a.date = b.date

\* how many rows of table t carry the (asset_id, date) of row r
KeyCount(r, t) == Cardinality({j \in 1..Len(t) : SameKey(t[j], r)})

NoDuplicatePrice ==
  \A i, j \in 1..Len(market_df) : SameKey(market_df[i], market_df[j]) => i = j

RECURSIVE SumTo(_, _)
SumTo(f, n) == IF n = 0 THEN 0 ELSE f[n] + SumTo(f, n - 1)

\* the number of merged rows news row i accounts for
Share(i) ==
  IF KeyCount(processed_news_df[i], market_df) = 0 THEN 1
  ELSE KeyCount(processed_news_df[i], market_df)

C7_OneRowPerAssetAndDate ==
  ppc = "processed" =>
    \A i, j \in 1..Len(processed_news_df) :
      SameKey(processed_news_df[i], processed_news_df[j]) => i = j

\* the (asset_id, asset_name, date) mentions among the items given
Mentions ==
  UNION { { <<news_df.rows[i].assets[k].id, news_df.rows[i].assets[k].name,
              DateOf(news_df.rows[i].publishTimeMillis, MS_IN_A_DAY)>> :
              k \in 1..Len(news_df.rows[i].assets) } :
          i \in {n \in 1..Len(news_df.rows) : news_df.rows[n].has_assets} }

\* C7, amended: the aggregated table holds exactly one row per
\* (asset_id, asset_name, date) mentioned, so for each (asset_id, date) it
\* holds as many rows as the asset id has names on that date: one when the id
\* goes under one name, two when it goes under two.
C7_OneRowPerAssetNameAndDate ==
  ppc = "processed" =>
    /\ \A i, j \in 1..Len(processed_news_df) :
         GroupKey(processed_news_df[i]) = GroupKey(processed_news_df[j]) => i = j
    /\ {GroupKey(processed_news_df[i]) : i \in 1..Len(processed_news_df)} = Mentions
    /\ \A i \in 1..Len(processed_news_df) :
         KeyCount(processed_news_df[i], processed_news_df)
           = Cardinality({m \in Mentions : /\ m[1] = processed_news_df[i].asset_id
                                            /\ m[3] = processed_news_df[i].date})

\* two items mention the same asset under the same name on the same date and
\* are aggregated into one row
C7_Witness ==
  /\ ppc = "processed"
  /\ \E i \in 1..Len(processed_news_df) : processed_news_df[i].count = 2

\* ======================================================================
\* 02_metrics_and_charting.py: calculate_metrics, then clean_data
\* ======================================================================

\* ------------------------------------------------------- float arithmetic
Abs(x) == IF x < 0 THEN -x ELSE x
Sign(x) == IF x < 0 THEN -1 ELSE IF x > 0 THEN 1 ELSE 0

RECURSIVE Gcd(_, _)
Gcd(a, b) == IF b = 0 THEN a ELSE Gcd(b, a % b)

\* n/d in lowest terms, d > 0
Norm(n, d) ==
  IF n = 0 THEN Fin(0, 1)
  ELSE LET g == Gcd(Abs(n), Abs(d)) IN Fin(Sign(d) * (n \div g), Abs(d) \div g)

IsNaN(a) == a.k = "nan"
IsInf(a) == a.k = "inf"
IsFin(a) == a.k = "fin"

\* a / b as IEEE division has it: x/0 is +-inf, 0/0 and inf/inf are NaN
Div(a, b) ==
  IF IsNaN(a) \/ IsNaN(b) THEN NaN
  ELSE IF IsInf(a) THEN (IF IsInf(b) THEN NaN
                         ELSE IF b.n < 0 THEN [a EXCEPT !.n = -a.n] ELSE a)
  ELSE IF IsInf(b) THEN Fin(0, 1)
  ELSE IF b.n = 0 THEN (IF a.n = 0 THEN NaN ELSE IF a.n > 0 THEN PInf ELSE NInf)
  ELSE Norm(a.n * b.d, a.d * b.n)

\* a - 1
MinusOne(a) == IF IsFin(a) THEN Norm(a.n - a.d, a.d) ELSE a

\* a * b
Mul(a, b) ==
  IF IsNaN(a) \/ IsNaN(b) THEN NaN
  ELSE IF IsInf(a) \/ IsInf(b)
  THEN (IF a.n = 0 \/ b.n = 0 THEN NaN
        ELSE IF Sign(a.n) * Sign(b.n) > 0 THEN PInf ELSE NInf)
  ELSE Norm(a.n * b.n, a.d * b.d)

\* a > 0 (false for NaN)
Positive(a) == ~IsNaN(a) /\ a.n > 0

\* a < b on finite values
Less(a, b) == a.n * b.d < b.n * a.d

\* the sum of the whole numbers f[1] .. f[n]
RECURSIVE Sum(_, _)
Sum(f, n) == IF n = 0 THEN 0 ELSE f[n] + Sum(f, n - 1)

\* ---------------------------------------------------------- calculate_metrics
AsFloat(x) == [i \in 1..Len(x) |-> Num(x[i])]

\* x.rolling(window=ROLLING_WINDOW, min_periods=MIN_PERIODS).mean() of a column
\* of whole numbers: the mean of the last ROLLING_WINDOW values, or of all
\* there are while they are fewer
RollingMean(x) ==
  [i \in 1..Len(x) |->
     LET lo == IF i > ROLLING_WINDOW THEN i - ROLLING_WINDOW + 1 ELSE 1
         k == i - lo + 1
     IN IF k < MIN_PERIODS THEN NaN
        ELSE Div(Num(Sum([j \in 1..k |-> x[lo + j - 1]], k)), Num(k))]

\* Series.ffill(): a NaN takes the last value before it that is not NaN
FFill(x) ==
  [i \in 1..Len(x) |->
     LET before == {j \in 1..i : ~IsNaN(x[j])}
     IN IF before = {} THEN x[i] ELSE x[CHOOSE j \in before : \A m \in before : m <= j]]

\* x.pct_change(periods): data / data.shift(periods) - 1
PctChange(x, periods) ==
  LET data == IF fill_pad THEN FFill(x) ELSE x
  IN [i \in 1..Len(x) |->
        IF i <= periods THEN NaN ELSE MinusOne(Div(data[i], data[i - periods]))]

\* (mutant: no grouping, every row is taken for the asset's own)
IndicesOf_AllRows(rows, a) == [i \in 1..Len(rows) |-> i]
\* the rows of one asset, as indices into the table
IndicesOf(rows, a) ==
  SelectSeq([i \in 1..Len(rows) |-> i], LAMBDA i : rows[i].asset_id = a)

\* the three lambdas of calculate_metrics
Mean7(x) == RollingMean(x)
Pct7(x) == PctChange(x, ROLLING_WINDOW)
Pct1(x) == PctChange(x, 1)

\* lambda f on the values x
Apply(f, x) ==
  CASE f = "Mean7" -> Mean7(x)
    [] f = "Pct7" -> Pct7(x)
    [] f = "Pct1" -> Pct1(x)

\* df.groupby("asset_id")[col].transform(f): f on each asset's own values, in
\* row order, the results put back on the asset's rows
Transform(rows, col, f) ==
  [i \in 1..Len(rows) |->
     LET idx == IndicesOf(rows, rows[i].asset_id)
         res == Apply(f, [j \in 1..Len(idx) |-> rows[idx[j]][col]])
     IN res[CHOOSE j \in 1..Len(idx) : idx[j] = i]]

\* df[col] = values: the table with the column written
Assign(rows, col, values) ==
  SubSeq([i \in 1..Len(rows) |-> [rows[i] EXCEPT ![col] = values[i]]], 1, Len(rows))

\* calculate_metrics(df)
CalculateMetrics(rows) ==
  LET averaged == Assign(rows, "count_7d_avg", Transform(rows, "count", "Mean7"))
      trended == Assign(averaged, "trend_score",
                        Transform(averaged, "count_7d_avg", "Pct7"))
      accelerated == Assign(trended, "acceleration_score",
                            Transform(trended, "trend_score", "Pct1"))
  IN Assign(accelerated, "price_score", Transform(accelerated, "close", "Pct7"))

\* ------------------------------------------------------------------ clean_data
\* (mutant: the infinities are left in)
ReplaceInf_Kept(a) == a
\* .replace([inf, -inf], nan)
ReplaceInf(a) == IF IsInf(a) THEN NaN ELSE a

\* sort_values(["date", "momentum_score"], ascending=[False, False]): r before q
Before(r, q) ==
  \/ r.date > q.date
  \/ r.date = q.date /\ Less(q.momentum_score, r.momentum_score)

\* the stable sort: a row goes after the rows that sort before it and after
\* the rows above it that it does not sort before
SortRows(rows) ==
  LET place == [i \in 1..Len(rows) |->
                  1 + Cardinality({j \in 1..Len(rows) :
                        \/ Before(rows[j], rows[i])
                        \/ j < i /\ ~Before(rows[i], rows[j])})]
  IN [p \in 1..Len(rows) |-> rows[CHOOSE i \in 1..Len(rows) : place[i] = p]]

\* clean_data(df)
CleanData(rows) ==
  LET replaced == [i \in 1..Len(rows) |->
                     [rows[i] EXCEPT !.trend_score = ReplaceInf(@),
                                     !.acceleration_score = ReplaceInf(@),
                                     !.price_score = ReplaceInf(@)]]
      dropped == SelectSeq(replaced, LAMBDA r :
                   /\ ~IsNaN(r.close) /\ ~IsNaN(r.trend_score)
                   /\ ~IsNaN(r.acceleration_score) /\ ~IsNaN(r.price_score))
      scored == [i \in 1..Len(dropped) |->
                   [dropped[i] EXCEPT !.momentum_score =
                      Mul(Mul(dropped[i].trend_score, dropped[i].acceleration_score),
                          dropped[i].price_score)]]
      byMomentum == SelectSeq(scored, LAMBDA r : Positive(r.momentum_score))
      byAcceleration == SelectSeq(byMomentum, LAMBDA r : Positive(r.acceleration_score))
  IN SortRows(byAcceleration)

\* ------------------------------------------------------------- the inputs
\* the sequences of length n over vals that change value at most twice
Profiles(vals, n) ==
  { [i \in 1..n |-> IF i < k1 THEN v1 ELSE IF i < k2 THEN v2 ELSE v3] :
      v1 \in vals, v2 \in vals, v3 \in vals, k1 \in 1..n, k2 \in 1..n }

\* the sequences of length n that go from lo to hi at some row
Rise(lo, hi, n) == { [i \in 1..n |-> IF i < k THEN lo ELSE hi] : k \in 1..n }

\* the sequences of length n that stay at lo or hi or go from one to the other
Swing(lo, hi, n) == Rise(lo, hi, n) \cup Rise(hi, lo, n)

\* a close: a price from 0 to MaxClose, or NaN where the left merge found none
Closes == {NaN} \cup {Num(v) : v \in 0..MaxClose}

\* the rows of one asset as load_and_prepare_data delivers them: one a day, in
\* date order, the metric columns not there yet.  A count is at least 1: a
\* row is there because news mentioned the asset that day.
Block(a, counts, closes) ==
  [i \in 1..Len(counts) |->
     [asset_id |-> a, date |-> i, count |-> counts[i], close |-> closes[i],
      count_7d_avg |-> NaN, trend_score |-> NaN, acceleration_score |-> NaN,
      price_score |-> NaN, momentum_score |-> NaN]]

\* MetricsSpec: one asset with MaxRows days of history
MetricsInit ==
  /\ FetchIdle
  /\ PipeIdle
  /\ mpc = "loaded"
  /\ fill_pad \in BOOLEAN
  /\ \E counts \in Swing(1, MaxCount, MaxRows), closes \in Profiles(Closes, MaxRows) :
       df = Block("a1", counts, closes)
  /\ out = <<>>

\* TwoAssetSpec: asset "a1" with MaxRows days of history and an asset with at
\* most ROLLING_WINDOW days, sorted before it ("a0") or after it ("a2")
TwoAssetInit ==
  /\ FetchIdle
  /\ PipeIdle
  /\ mpc = "loaded"
  /\ fill_pad \in BOOLEAN
  /\ \E n \in 1..ROLLING_WINDOW, count \in {1, MaxCount}, close \in Closes,
        other \in {"a0", "a2"} :
     \E counts \in Swing(1, MaxCount, MaxRows), closes \in Rise(MaxClose, 0, MaxRows) :
       LET few == Block(other, [i \in 1..n |-> count], [i \in 1..n |-> close])
           many == Block("a1", counts, AsFloat(closes))
       IN df = IF other = "a0" THEN few \o many ELSE many \o few
  /\ out = <<>>

\* df = calculate_metrics(df)
Calculate ==
  /\ mpc = "loaded"
  /\ df' = CalculateMetrics(df)
  /\ mpc' = "metrics"
  /\ UNCHANGED <<fill_pad, out, fetchVars, pipeVars>>

\* df = clean_data(df)
Clean ==
  /\ mpc = "metrics"
  /\ out' = CleanData(df)
  /\ mpc' = "cleaned"
  /\ UNCHANGED <<fill_pad, df, fetchVars, pipeVars>>

MetricsNext ==
  \/ Calculate
  \/ Clean

MetricsSpec == MetricsInit /\ [][MetricsNext]_vars

TwoAssetSpec == TwoAssetInit /\ [][MetricsNext]_vars

\* -------------------------------------------------- claims on the metrics
\* m = t * a * p, by cross-multiplication
IsProduct(m, t, a, p) ==
  IsFin(m) /\ m.n * (t.d * a.d * p.d) = (t.n * a.n * p.n) * m.d

\* C8: every row of the table clean_data returns has a close that is not
\* null, a trend_score, an acceleration_score and a price_score that are
\* finite numbers (no NaN and no infinity from a percent change on a previous
\* value of 0), a momentum_score that is the product of the three, and
\* momentum_score > 0 and acceleration_score > 0.
C8_TerminalRowsFinitePositive ==
  mpc = "cleaned" =>
    \A i \in 1..Len(out) :
      LET r == out[i]
      IN /\ ~IsNaN(r.close)
         /\ IsFin(r.trend_score)
         /\ IsFin(r.acceleration_score)
         /\ IsFin(r.price_score)
         /\ IsProduct(r.momentum_score, r.trend_score, r.acceleration_score,
                      r.price_score)
         /\ Positive(r.momentum_score)
         /\ Positive(r.acceleration_score)

\* clean_data has returned a row, from a table in which a percent change on
\* a previous close of 0 had come out infinite
C8_Witness ==
  /\ mpc = "cleaned"
  /\ out # <<>>
  /\ \E i \in 1..Len(df) : IsInf(df[i].price_score)

\* the rows of asset a in df
RowsOf(a) == {i \in 1..Len(df) : df[i].asset_id = a}

\* an asset with fewer than ROLLING_WINDOW + 1 rows
Few(a) == Cardinality(RowsOf(a)) < ROLLING_WINDOW + 1

\* column col of asset a alone; df is sorted by asset_id, so the asset's rows
\* are one run of df
History(a, col) ==
  LET first == CHOOSE i \in RowsOf(a) : \A j \in RowsOf(a) : i <= j
  IN SubSeq(Column(df, col), first, first + Cardinality(RowsOf(a)) - 1)

\* C9: after calculate_metrics an asset with fewer than 8 rows has a null
\* trend_score and a null acceleration_score on every one of its rows, and no
\* row of it is in the table clean_data returns; every asset's metric columns
\* are what the rolling mean and the percent changes give on that asset's
\* rows alone.
C9_FewRowsNoScores ==
  mpc \in {"metrics", "cleaned"} =>
    /\ \A i \in 1..Len(df) :
         Few(df[i].asset_id) =>
           IsNaN(df[i].trend_score) /\ IsNaN(df[i].acceleration_score)
    /\ mpc = "cleaned" => \A i \in 1..Len(out) : ~Few(out[i].asset_id)
    /\ \A a \in {df[i].asset_id : i \in 1..Len(df)} :
         /\ History(a, "count_7d_avg") = Mean7(History(a, "count"))
         /\ History(a, "trend_score") = Pct7(History(a, "count_7d_avg"))
         /\ History(a, "acceleration_score") = Pct1(History(a, "trend_score"))
         /\ History(a, "price_score") = Pct7(History(a, "close"))

\* clean_data has returned rows of the asset with the long history, from a
\* table whose first rows are those of an asset with 3 days of history and
\* prices
C9_Witness ==
  /\ mpc = "cleaned"
  /\ out # <<>>
  /\ Cardinality(RowsOf("a0")) = 3
  /\ \A i \in RowsOf("a0") : ~IsNaN(df[i].close)

====
